---------------------------- MODULE Spec2Model ----------------------------
(***************************************************************************)
(* The HllSet wrapper of src/core/hllset_wrapper.py over the sketch engine *)
(* HllSets.jl.  The wrapper is Python: an HllSet object carries P, tau,    *)
(* rho, seed and a reference `hll' to an engine object, and forwards every *)
(* operation to the engine.  The engine's source is not part of src/; its  *)
(* functions (add!, count, union, intersect, diff, set_comp, isequal, id)  *)
(* are modelled from the specification of the sketch engine: a register    *)
(* array of M = 2^P registers, each a vector of rank flags.                *)
(*                                                                         *)
(* Numbers.  A float is modelled as a reduced fraction <<n, d>>; an        *)
(* estimate is an integer number of hundredths.                            *)
(***************************************************************************)
EXTENDS Integers, Naturals, Sequences, FiniteSets, TLC

(***************************************************************************)
(* Bounds of the model.                                                    *)
(***************************************************************************)
\* Elements 1..NumElems can be hashed; element 0 cannot (InputError).
NumElems == 2
\* Longest list handed to add_batch.
MaxBatch == 2

Elems == 0..NumElems
Hashable(e) == e > 0

\* The precisions sketches are created with.
Precisions == {4, 5}

(***************************************************************************)
(* Floats as reduced fractions.                                            *)
(***************************************************************************)
RECURSIVE Gcd(_, _)
Gcd(m, n) == IF n = 0 THEN m ELSE Gcd(n, m % n)

\* The float n / d, d > 0.
Ratio(n, d) == LET g == Gcd(n, d) IN <<n \div g, d \div g>>

RLe(p, q) == p[1] * q[2] <= q[1] * p[2]
\* Python's min(p, q) and max(p, q): the first argument wins a tie.
RMin(p, q) == IF RLe(p, q) THEN p ELSE q
RMax(p, q) == IF RLe(q, p) THEN p ELSE q

Zero == Ratio(0, 1)
DefaultTau == Ratio(7, 10)
DefaultRho == Ratio(21, 100)
DefaultSeed == 42
\* The (tau, rho, seed) sketches are created with: the constructor's
\* defaults, another tau and rho, and those with another seed.
MetaArgs == {<<DefaultTau, DefaultRho, DefaultSeed>>,
             <<Ratio(1, 2), Ratio(1, 10), DefaultSeed>>,
             <<Ratio(1, 2), Ratio(1, 10), 7>>}
\* Those of them the caller of the operators uses.
MetaArgsAlgebra == {<<DefaultTau, DefaultRho, DefaultSeed>>,
                    <<Ratio(1, 2), Ratio(1, 10), 7>>}

(***************************************************************************)
(* The sketch engine (HllSets.jl), modelled from its specification.        *)
(***************************************************************************)
RECURSIVE Pow2(_)
Pow2(n) == IF n = 0 THEN 1 ELSE 2 * Pow2(n - 1)

\* Width of the element hash, in bits.
HashBits == 8

\* Number of registers of a sketch of precision P.
NumRegs(P) == Pow2(P)
\* Highest rank a sketch of precision P records.
MaxRank(P) == HashBits - P

\* The element hash: a middle-square mix of HashBits bits.
Mix(e) == LET x == (e * 33 + 1) % Pow2(HashBits)
          IN  ((x * x) \div 16) % Pow2(HashBits)

RECURSIVE TrailingZeros(_, _)
TrailingZeros(x, cap) ==
    IF cap = 0 \/ x % 2 = 1 THEN 0 ELSE 1 + TrailingZeros(x \div 2, cap - 1)

\* Hasher/Indexer: the register an element selects and the rank it sets.
HashIndex(e, P) == Mix(e) % NumRegs(P)
HashRank(e, P) == TrailingZeros(Mix(e) \div NumRegs(P), MaxRank(P))

\* The flags of a register array: flag <<i, r>> is flag[r] of register i.
\* A register array is the set of its set flags; new(P) has none.
Flags(P) == (0..(NumRegs(P) - 1)) \X (0..MaxRank(P))
JNew(P) == [P |-> P, counts |-> {}]

\* readFlags(index): the flag vector of a register, as the set of set ranks.
ReadFlags(o, i) == {f[2] : f \in {g \in o.counts : g[1] = i}}

\* The flag an element sets in a sketch of precision P.
Flag(e, P) == <<HashIndex(e, P), HashRank(e, P)>>

\* add!(hll, e) for a hashable e: set flag[rank] in register[index].
JAdd(o, e) == [o EXCEPT !.counts = @ \cup {Flag(e, o.P)}]

\* A binary engine function fails when the precisions differ.
JMismatch(x, y) == x.P # y.P

\* union: register-wise OR.
JUnion(x, y) == [P |-> x.P, counts |-> x.counts \cup y.counts]
\* intersect: register-wise AND.
JIntersect(x, y) == [P |-> x.P, counts |-> x.counts \cap y.counts]
\* set_comp: register-wise AND-NOT of x by y.
JSetComp(x, y) == [P |-> x.P, counts |-> x.counts \ y.counts]
\* diff: (deleted, retained, new).
JDiff(x, y) == <<JSetComp(x, y), JIntersect(x, y), JSetComp(y, x)>>
\* isequal: the register arrays are bit-for-bit identical.
JIsEqual(x, y) == x.counts = y.counts

\* Highest set rank of a register; an empty register contributes rank 0.
RegMaxRank(r) == IF r = {} THEN 0 ELSE CHOOSE k \in r : \A j \in r : j <= k

\* Sum over the registers of 2^(K - maxRank): the harmonic sum scaled by
\* 2^K.  A register with no set flag contributes 2^K.
SumRegs(o, K) ==
    LET used == {f[1] : f \in o.counts}
        RECURSIVE Sum(_)
        Sum(S) == IF S = {} THEN 0
                  ELSE LET i == CHOOSE j \in S : TRUE
                       IN  Pow2(K - RegMaxRank(ReadFlags(o, i))) + Sum(S \ {i})
    IN  (NumRegs(o.P) - Cardinality(used)) * Pow2(K) + Sum(used)

\* The bias constant alpha_M, in thousandths.
AlphaMilli(m) == IF m = 16 THEN 673 ELSE IF m = 32 THEN 697 ELSE 709

\* ln(n) for n in 1..32, in hundredths.
LnCenti == <<0, 69, 110, 139, 161, 179, 195, 208, 220, 230, 240, 248, 256,
             264, 271, 277, 283, 289, 294, 300, 304, 309, 314, 318, 322,
             326, 330, 333, 337, 340, 343, 347>>

\* count(hll): the estimate, in hundredths.  The large-range correction
\* applies above 2^64 / 30 and is out of reach of these sketches.
JCount(o) ==
    LET m == NumRegs(o.P)
        K == MaxRank(o.P)
        v == m - Cardinality({f[1] : f \in o.counts})
        raw == (AlphaMilli(m) * m * m * Pow2(K)) \div (SumRegs(o, K) * 10)
    IN  IF 2 * raw <= 5 * m * 100 /\ v > 0
        THEN m * (LnCenti[m] - LnCenti[v])
        ELSE raw

\* One byte of the canonical serialization: the flags of a register.
RECURSIVE FlagBits(_, _)
FlagBits(r, k) ==
    IF k < 0 THEN 0
    ELSE (IF k \in r THEN Pow2(k) ELSE 0) + FlagBits(r, k - 1)

RECURSIVE DigestFrom(_, _, _)
DigestFrom(o, i, K) ==
    IF i < 0 THEN 7
    ELSE (DigestFrom(o, i - 1, K) * 31 + FlagBits(ReadFlags(o, i), K) + 1) % 65521

\* id(hll): a digest of the register flags in register order, flag order.
JId(o) == DigestFrom(o, NumRegs(o.P) - 1, MaxRank(o.P))

(***************************************************************************)
(* The program state.                                                      *)
(***************************************************************************)
VARIABLES
    sets,   \* the caller's variables: name -> HllSet wrapper object
    heap,   \* the engine's objects: reference -> [P, counts]
    seen,   \* history: name -> how the sketch was made and what was added
    last    \* the call just made: operation, operands, error, value, engine
            \* calls; Idle once the caller has taken it and gone on

vars == <<sets, heap, seen, last>>

\* a and b are created by the constructor; r1..r3 hold what the operator
\* just called returned (difference returns three sketches), until the
\* caller goes on.
NameSeq == <<"a", "b", "r1", "r2", "r3">>
Names == {NameSeq[i] : i \in DOMAIN NameSeq}
UserNames == {"a", "b"}
ResultNames == Names \ UserNames

Bound(n) == n \in DOMAIN sets
\* The engine object behind the wrapper bound to n.
Obj(n) == heap[sets[n].hll]

NoError == "none"
ConfigMismatchError == "ConfigMismatchError"
InputError == "InputError"

\* A reference no live object has: the engine allocates a new object.
FreshId(h) ==
    CHOOSE i \in 1..(Cardinality(DOMAIN h) + 1) :
        i \notin DOMAIN h /\ \A j \in 1..(i - 1) : j \in DOMAIN h

Alloc(h, id, o) == (id :> o) @@ h

(***************************************************************************)
(* The wrapper's methods, as functions of the heap and the wrapper objects *)
(* they are called on.  Each returns the heap after the call, the error it *)
(* raised, the engine functions it called and what it returned.            *)
(***************************************************************************)
\* HllSet.__init__: a wrapper around a new engine object Main.HllSet(P).
HllSetInit(h, P, tau, rho, seed) ==
    LET id == FreshId(h)
    IN  [heap |-> Alloc(h, id, JNew(P)),
         self |-> [P |-> P, tau |-> tau, rho |-> rho, seed |-> seed, hll |-> id]]

\* HllSet.from_julia: cls(P, tau, rho, seed) with the default tau, rho and
\* seed, then hll.hll = julia_hll.  The engine object cls() creates is
\* dropped at once and never reachable.
FromJulia(id, P) ==
    [P |-> P, tau |-> DefaultTau, rho |-> DefaultRho, seed |-> DefaultSeed,
     hll |-> id]

\* A variant of add whose registers count: inserting an element whose flag
\* is set sets the next rank's flag as well.
HllSetAddCounting(h, self, e) ==
    IF Hashable(e)
    THEN LET o == h[self.hll]
             f == Flag(e, o.P)
             g == <<f[1], IF f[2] < MaxRank(o.P) THEN f[2] + 1 ELSE f[2]>>
         IN  [heap |-> [h EXCEPT ![self.hll] =
                           IF f \in o.counts
                           THEN [o EXCEPT !.counts = @ \cup {g}]
                           ELSE JAdd(o, e)],
              err |-> NoError]
    ELSE [heap |-> h, err |-> InputError]

\* HllSet.add: add!(self.hll, element) mutates the engine object in place;
\* an element that cannot be hashed raises before any register is written.
HllSetAdd(h, self, e) ==
    IF Hashable(e)
    THEN [heap |-> [h EXCEPT ![self.hll] = JAdd(@, e)], err |-> NoError]
    ELSE [heap |-> h, err |-> InputError]

RECURSIVE HllSetAddBatchSkipping(_, _, _)
\* A variant of add_batch that skips an element that fails and goes on,
\* raising when the list is done.
HllSetAddBatchSkipping(h, self, elements) ==
    IF elements = <<>>
    THEN [heap |-> h, err |-> NoError, done |-> 0]
    ELSE LET r == HllSetAdd(h, self, Head(elements))
             t == HllSetAddBatchSkipping(r.heap, self, Tail(elements))
         IN  IF r.err # NoError
             THEN [t EXCEPT !.err = r.err]
             ELSE [t EXCEPT !.done = @ + 1]

RECURSIVE HllSetAddBatch(_, _, _)
\* HllSet.add_batch: add! on each element in turn; an error ends the loop
\* and leaves what the earlier elements wrote.  `done' counts the elements
\* added.
HllSetAddBatch(h, self, elements) ==
    IF elements = <<>>
    THEN [heap |-> h, err |-> NoError, done |-> 0]
    ELSE LET r == HllSetAdd(h, self, Head(elements))
         IN  IF r.err # NoError
             THEN [heap |-> r.heap, err |-> r.err, done |-> 0]
             ELSE LET t == HllSetAddBatch(r.heap, self, Tail(elements))
                  IN  [t EXCEPT !.done = @ + 1]

\* A variant of the rule for tau that takes the larger one.
CombinedTauMax(self, other) == RMax(self.tau, other.tau)

\* min(self.tau, other.tau) and max(self.rho, other.rho).
CombinedTau(self, other) == RMin(self.tau, other.tau)
CombinedRho(self, other) == RMax(self.rho, other.rho)

Raised(h, e, calls) == [heap |-> h, err |-> e, ret |-> <<>>, calls |-> calls]

\* A variant of union that wraps the engine object of self, not the
\* engine's result.
HllSetUnionAliased(h, self, other) ==
    IF JMismatch(h[self.hll], h[other.hll])
    THEN Raised(h, ConfigMismatchError, <<"union">>)
    ELSE LET union_set == FromJulia(self.hll, self.P)
         IN  [heap |-> h,
              err |-> NoError,
              ret |-> << [union_set EXCEPT !.tau = CombinedTau(self, other),
                                           !.rho = CombinedRho(self, other)] >>,
              calls |-> <<"union">>]

\* A variant of union that hands the engine self twice.
HllSetUnionSelfTwice(h, self, other) ==
    IF JMismatch(h[self.hll], h[other.hll])
    THEN Raised(h, ConfigMismatchError, <<"union">>)
    ELSE LET id == FreshId(h)
             union_set == FromJulia(id, self.P)
         IN  [heap |-> Alloc(h, id, JUnion(h[self.hll], h[self.hll])),
              err |-> NoError,
              ret |-> << [union_set EXCEPT !.tau = CombinedTau(self, other),
                                           !.rho = CombinedRho(self, other)] >>,
              calls |-> <<"union">>]

\* HllSet.union.
HllSetUnion(h, self, other) ==
    IF JMismatch(h[self.hll], h[other.hll])
    THEN Raised(h, ConfigMismatchError, <<"union">>)
    ELSE LET id == FreshId(h)
             union_set == FromJulia(id, self.P)
         IN  [heap |-> Alloc(h, id, JUnion(h[self.hll], h[other.hll])),
              err |-> NoError,
              ret |-> << [union_set EXCEPT !.tau = CombinedTau(self, other),
                                           !.rho = CombinedRho(self, other)] >>,
              calls |-> <<"union">>]

\* HllSet.intersection.
HllSetIntersection(h, self, other) ==
    IF JMismatch(h[self.hll], h[other.hll])
    THEN Raised(h, ConfigMismatchError, <<"intersect">>)
    ELSE LET id == FreshId(h)
             intersect_set == FromJulia(id, self.P)
         IN  [heap |-> Alloc(h, id, JIntersect(h[self.hll], h[other.hll])),
              err |-> NoError,
              ret |-> << [intersect_set EXCEPT !.tau = CombinedTau(self, other),
                                               !.rho = CombinedRho(self, other)] >>,
              calls |-> <<"intersect">>]

\* A variant of the unpacking that wraps `deleted' twice.
DiffResultsDup(d) == <<d[1], d[1], d[3]>>

\* deleted, retained, new = Main.diff(...): the engine object each of
\* deleted_set, retained_set and new_set wraps.
DiffResults(d) == <<d[1], d[2], d[3]>>

\* HllSet.difference.
HllSetDifference(h, self, other) ==
    IF JMismatch(h[self.hll], h[other.hll])
    THEN Raised(h, ConfigMismatchError, <<"diff">>)
    ELSE LET d == DiffResults(JDiff(h[self.hll], h[other.hll]))
             id1 == FreshId(h)
             h1 == Alloc(h, id1, d[1])
             id2 == FreshId(h1)
             h2 == Alloc(h1, id2, d[2])
             id3 == FreshId(h2)
             h3 == Alloc(h2, id3, d[3])
             combined_tau == CombinedTau(self, other)
             combined_rho == CombinedRho(self, other)
             Result(id) == [FromJulia(id, self.P) EXCEPT !.tau = combined_tau,
                                                         !.rho = combined_rho]
         IN  [heap |-> h3, err |-> NoError,
              ret |-> <<Result(id1), Result(id2), Result(id3)>>,
              calls |-> <<"diff">>]

\* A variant of _calculate_bss_metrics that counts `new', not `deleted'.
CalculateBssMetricsNew(h, self, other) ==
    LET count_b == JCount(h[other.hll])
    IN  IF count_b = 0
        THEN [err |-> NoError, tau |-> Zero, rho |-> Zero, calls |-> <<"count">>]
        ELSE IF JMismatch(h[self.hll], h[other.hll])
        THEN [err |-> ConfigMismatchError, tau |-> Zero, rho |-> Zero,
              calls |-> <<"count", "intersect">>]
        ELSE LET intersection_count == JCount(JIntersect(h[self.hll], h[other.hll]))
                 deleted_count == JCount(JDiff(h[self.hll], h[other.hll])[3])
             IN  [err |-> NoError,
                  tau |-> Ratio(intersection_count, count_b),
                  rho |-> Ratio(deleted_count, count_b),
                  calls |-> <<"count", "intersect", "count", "diff", "count">>]

\* HllSet._calculate_bss_metrics.
CalculateBssMetrics(h, self, other) ==
    LET count_b == JCount(h[other.hll])
    IN  IF count_b = 0
        THEN [err |-> NoError, tau |-> Zero, rho |-> Zero, calls |-> <<"count">>]
        ELSE IF JMismatch(h[self.hll], h[other.hll])
        THEN [err |-> ConfigMismatchError, tau |-> Zero, rho |-> Zero,
              calls |-> <<"count", "intersect">>]
        ELSE LET intersection_count == JCount(JIntersect(h[self.hll], h[other.hll]))
                 deleted_count == JCount(JDiff(h[self.hll], h[other.hll])[1])
             IN  [err |-> NoError,
                  tau |-> Ratio(intersection_count, count_b),
                  rho |-> Ratio(deleted_count, count_b),
                  calls |-> <<"count", "intersect", "count", "diff", "count">>]

\* HllSet.complement.
HllSetComplement(h, self, other) ==
    IF JMismatch(h[self.hll], h[other.hll])
    THEN Raised(h, ConfigMismatchError, <<"set_comp">>)
    ELSE LET id == FreshId(h)
             comp_set == FromJulia(id, self.P)
             metrics == CalculateBssMetrics(h, self, other)
         IN  [heap |-> Alloc(h, id, JSetComp(h[self.hll], h[other.hll])),
              err |-> NoError,
              ret |-> << [comp_set EXCEPT !.tau = metrics.tau,
                                          !.rho = metrics.rho] >>,
              calls |-> <<"set_comp">> \o metrics.calls]

\* A variant of id that digests the wrapper's tau with the registers.
HllSetIdMeta(h, self) == (JId(h[self.hll]) + self.tau[1]) % 65521

\* HllSet.id.
HllSetId(h, self) == JId(h[self.hll])

\* A variant of __eq__ that answers False for sketches of different P.
HllSetEqNoRaise(h, self, other) ==
    [err |-> NoError,
     out |-> self.P = other.P /\ JIsEqual(h[self.hll], h[other.hll]),
     calls |-> <<"isequal">>]

\* A variant of __eq__ that compares the wrappers' tau and rho as well.
HllSetEqMeta(h, self, other) ==
    IF JMismatch(h[self.hll], h[other.hll])
    THEN [err |-> ConfigMismatchError, out |-> FALSE, calls |-> <<"isequal">>]
    ELSE [err |-> NoError,
          out |-> /\ JIsEqual(h[self.hll], h[other.hll])
                  /\ self.tau = other.tau /\ self.rho = other.rho,
          calls |-> <<"isequal">>]

\* HllSet.__eq__ on another HllSet: Main.isequal(self.hll, other.hll).
HllSetEq(h, self, other) ==
    IF JMismatch(h[self.hll], h[other.hll])
    THEN [err |-> ConfigMismatchError, out |-> FALSE, calls |-> <<"isequal">>]
    ELSE [err |-> NoError, out |-> JIsEqual(h[self.hll], h[other.hll]),
          calls |-> <<"isequal">>]

\* HllSet.__eq__ on an object that is no HllSet: False, and no engine call.
HllSetEqOther == FALSE

(***************************************************************************)
(* The caller's steps.  References are kept canonical: an engine object is *)
(* named by the first variable (in NameSeq order) whose wrapper holds it,  *)
(* and an object no wrapper holds is collected.                            *)
(***************************************************************************)
Pos(n) == CHOOSE i \in DOMAIN NameSeq : NameSeq[i] = n
Refs(s) == {s[n].hll : n \in DOMAIN s}
Rep(s, id) ==
    LET ps == {Pos(n) : n \in {m \in DOMAIN s : s[m].hll = id}}
    IN  CHOOSE i \in ps : \A j \in ps : i <= j
CanonSets(s) == [n \in DOMAIN s |-> [s[n] EXCEPT !.hll = Rep(s, @)]]
CanonHeap(s, h) ==
    [i \in {Rep(s, id) : id \in Refs(s)} |->
        h[CHOOSE id \in Refs(s) : Rep(s, id) = i]]

\* The caller keeps a and b and binds r1.. to the sketches a call returned;
\* what an earlier call returned is dropped.
Rebind(s, ret) ==
    [n \in (DOMAIN s \cap UserNames) \cup {NameSeq[2 + k] : k \in DOMAIN ret} |->
        IF n \in UserNames THEN s[n] ELSE ret[Pos(n) - 2]]

Call(op, x, y, arg, err, out, calls) ==
    [op |-> op, x |-> x, y |-> y, arg |-> arg, err |-> err, out |-> out,
     calls |-> calls]

Made(built) == [built |-> built, elems |-> {}]

\* No call is under way.
Idle == Call("idle", "", "", <<>>, NoError, <<>>, <<>>)

\* An operator has just returned sketches, which the caller holds.
Fresh == last.op \in {"union", "intersection", "difference", "complement"}
             /\ last.err = NoError

Init ==
    /\ sets = <<>>
    /\ heap = <<>>
    /\ seen = <<>>
    /\ last = Idle

\* n = HllSet(P, tau, rho, seed)
New(n, P, tau, rho, seed) ==
    /\ last = Idle
    /\ ~Bound(n)
    /\ LET r == HllSetInit(heap, P, tau, rho, seed)
           s == (n :> r.self) @@ sets
       IN  /\ sets' = CanonSets(s)
           /\ heap' = CanonHeap(s, r.heap)
    /\ seen' = (n :> Made(TRUE)) @@ seen
    /\ last' = Call("new", n, "", <<>>, NoError, <<>>, <<"HllSet">>)

\* n.add(e), also right after an operator has returned: into one of its
\* operands or into a sketch it returned.
Add(n, e) ==
    /\ last = Idle \/ Fresh
    /\ Bound(n)
    /\ LET r == HllSetAdd(heap, sets[n], e)
       IN  /\ heap' = r.heap
           /\ seen' = IF r.err = NoError
                      THEN [seen EXCEPT ![n].elems = @ \cup {e}]
                      ELSE seen
           /\ last' = Call("add", n, "", <<e>>, r.err, <<>>, <<"add!">>)
    /\ UNCHANGED sets

\* n.add_batch(es)
AddBatch(n, es) ==
    /\ last = Idle
    /\ Bound(n)
    /\ LET r == HllSetAddBatch(heap, sets[n], es)
       IN  /\ heap' = r.heap
           /\ seen' = [seen EXCEPT ![n].elems =
                           @ \cup {es[i] : i \in 1..r.done}]
           /\ last' = Call("add_batch", n, "", es, r.err, <<>>,
                           [i \in 1..(IF r.err = NoError THEN r.done
                                      ELSE r.done + 1) |-> "add!"])
    /\ UNCHANGED sets

\* r1 = x.op(y), or r1, r2, r3 = x.difference(y): r is what the method did.
Operator(op, x, y, r) ==
    /\ last = Idle
    /\ IF r.err = NoError
       THEN LET s == Rebind(sets, r.ret)
            IN  /\ sets' = CanonSets(s)
                /\ heap' = CanonHeap(s, r.heap)
                /\ seen' = [n \in DOMAIN s |->
                               IF n \in UserNames THEN seen[n] ELSE Made(FALSE)]
       ELSE UNCHANGED <<sets, heap, seen>>
    /\ last' = Call(op, x, y, <<>>, r.err, <<>>, r.calls)

Union(x, y) ==
    /\ Bound(x) /\ Bound(y)
    /\ Operator("union", x, y, HllSetUnion(heap, sets[x], sets[y]))

Intersection(x, y) ==
    /\ Bound(x) /\ Bound(y)
    /\ Operator("intersection", x, y, HllSetIntersection(heap, sets[x], sets[y]))

Difference(x, y) ==
    /\ Bound(x) /\ Bound(y)
    /\ Operator("difference", x, y, HllSetDifference(heap, sets[x], sets[y]))

Complement(x, y) ==
    /\ Bound(x) /\ Bound(y)
    /\ Operator("complement", x, y, HllSetComplement(heap, sets[x], sets[y]))

\* x.calculate_bss_to(y)
CalculateBssTo(x, y) ==
    /\ last = Idle
    /\ Bound(x) /\ Bound(y)
    /\ LET m == CalculateBssMetrics(heap, sets[x], sets[y])
       IN  last' = Call("calculate_bss_to", x, y, <<>>, m.err,
                        IF m.err = NoError THEN <<m.tau, m.rho>> ELSE <<>>,
                        m.calls)
    /\ UNCHANGED <<sets, heap, seen>>

\* x == y
Eq(x, y) ==
    /\ last = Idle
    /\ Bound(x) /\ Bound(y)
    /\ LET r == HllSetEq(heap, sets[x], sets[y])
       IN  last' = Call("eq", x, y, <<>>, r.err,
                        IF r.err = NoError THEN <<r.out>> ELSE <<>>,
                        r.calls)
    /\ UNCHANGED <<sets, heap, seen>>

\* x == other, for an other that is no HllSet.
EqOther(x) ==
    /\ last = Idle
    /\ Bound(x)
    /\ last' = Call("eq", x, "", <<>>, NoError, <<HllSetEqOther>>, <<>>)
    /\ UNCHANGED <<sets, heap, seen>>

\* x.id()
Id(x) ==
    /\ last = Idle
    /\ Bound(x)
    /\ last' = Call("id", x, "", <<>>, NoError, <<HllSetId(heap, sets[x])>>,
                    <<"id">>)
    /\ UNCHANGED <<sets, heap, seen>>

\* The caller takes what the call returned or raised and goes on; the
\* sketches an operator returned go out of scope.
Continue ==
    /\ last # Idle
    /\ LET s == [n \in DOMAIN sets \cap UserNames |-> sets[n]]
       IN  /\ sets' = CanonSets(s)
           /\ heap' = CanonHeap(s, heap)
           /\ seen' = [n \in DOMAIN s |-> seen[n]]
    /\ last' = Idle

Batches == UNION {[1..k -> Elems] : k \in 0..MaxBatch}

Construct(ps, args) ==
    \E n \in UserNames, P \in ps, m \in args :
        New(n, P, m[1], m[2], m[3])

(***************************************************************************)
(* Spec: a caller that builds the sketches a and b, of one precision, by   *)
(* insert and batch insert, and queries them.                              *)
(***************************************************************************)
Next ==
    \/ Construct({4}, MetaArgs)
    \/ \E n \in UserNames, e \in Elems : Add(n, e)
    \/ \E n \in UserNames, es \in Batches : AddBatch(n, es)
    \/ \E x \in UserNames, y \in UserNames : CalculateBssTo(x, y)
    \/ \E x \in UserNames, y \in UserNames : Eq(x, y)
    \/ \E x \in UserNames : EqOther(x)
    \/ \E x \in UserNames : Id(x)
    \/ Continue

Spec == Init /\ [][Next]_vars

(***************************************************************************)
(* SpecAlgebra: a caller that builds a and b, of either precision, queries *)
(* them, applies the operators to them and, before it goes on, may insert  *)
(* an element into an operand or into a sketch returned.                   *)
(***************************************************************************)
NextAlgebra ==
    \/ Construct(Precisions, MetaArgsAlgebra)
    \/ \E n \in Names, e \in Elems : Add(n, e)
    \/ \E x \in UserNames, y \in UserNames : Union(x, y)
    \/ \E x \in UserNames, y \in UserNames : Intersection(x, y)
    \/ \E x \in UserNames, y \in UserNames : Difference(x, y)
    \/ \E x \in UserNames, y \in UserNames : Complement(x, y)
    \/ \E x \in UserNames, y \in UserNames : CalculateBssTo(x, y)
    \/ \E x \in UserNames, y \in UserNames : Eq(x, y)
    \/ Continue

SpecAlgebra == Init /\ [][NextAlgebra]_vars

(***************************************************************************)
(* Properties.                                                             *)
(***************************************************************************)
OperatorNames == {"union", "intersection", "difference", "complement"}
InsertNames == {"add", "add_batch"}
\* The register contents of the sketch bound to n.
Regs(n) == Obj(n).counts
\* The call just made was op, and it returned.
Returned(op) == last.op = op /\ last.err = NoError

\* C1: after r1, r2, r3 = A.difference(B) on sketches of equal precision,
\* deleted = A \ B, retained = A /\ B and new = B \ A flag by flag: the
\* three are pairwise disjoint and their union is the union of A's and B's
\* flags.
C1_DifferencePartition ==
    Returned("difference") =>
        LET A == Regs(last.x)
            B == Regs(last.y)
            D == Regs("r1")
            R == Regs("r2")
            N == Regs("r3")
        IN  /\ D \cap R = {} /\ D \cap N = {} /\ R \cap N = {}
            /\ D \cup R \cup N = A \cup B
            /\ D = A \ B /\ R = A \cap B /\ N = B \ A

\* difference has returned, deleted and new are not empty, and the operands
\* are two sketches.
C1_Witness ==
    /\ Returned("difference")
    /\ last.x # last.y
    /\ Regs("r1") # {} /\ Regs("r3") # {}
    /\ Regs(last.x) # {} /\ Regs(last.y) # {}

\* C2: an operator call or calculate_bss_to leaves the wrapper fields and
\* the register contents of both operands as they were, and an insertion
\* changes the registers of no sketch but the one inserted into: not of an
\* operand when the target is a returned sketch, and not of a returned
\* sketch when the target is an operand.
C2_Step ==
    /\ last'.op \in OperatorNames \cup {"calculate_bss_to"} =>
           \A n \in {last'.x, last'.y} :
               /\ n \in DOMAIN sets'
               /\ sets'[n] = sets[n]
               /\ heap'[sets'[n].hll] = heap[sets[n].hll]
    /\ last'.op \in InsertNames =>
           \A m \in DOMAIN sets \ {last'.x} :
               /\ m \in DOMAIN sets'
               /\ sets'[m] = sets[m]
               /\ heap'[sets'[m].hll] = heap[sets[m].hll]

C2_NoMutationNoAlias == [][C2_Step]_vars

\* An element was inserted into the sketch union returned, and an operand
\* of that call does not hold the element's flag.
C2_Witness ==
    /\ last.op = "add" /\ last.err = NoError
    /\ last.x = "r1"
    /\ \E m \in UserNames :
           /\ Bound(m)
           /\ sets[m].P = sets["r1"].P
           /\ Flag(last.arg[1], sets["r1"].P) \in Regs("r1") \ Regs(m)

\* C3: union, intersection, difference, complement and == on sketches of
\* different P raise ConfigMismatchError, return nothing, and leave every
\* wrapper and every register array as it was.
C3_Step ==
    (/\ last'.op \in OperatorNames \cup {"eq"}
     /\ last'.y # ""
     /\ sets[last'.x].P # sets[last'.y].P)
        => /\ last'.err = ConfigMismatchError
           /\ last'.out = <<>>
           /\ sets' = sets
           /\ heap' = heap

C3_MismatchFails == [][C3_Step]_vars

\* An operator was called on sketches of different P, both holding flags.
C3_Witness ==
    /\ last.op \in OperatorNames
    /\ last.err = ConfigMismatchError
    /\ sets[last.x].P # sets[last.y].P
    /\ Regs(last.x) # {} /\ Regs(last.y) # {}

\* C4, as claimed: every sketch an operator returns, complement's too, has
\* tau = min(A.tau, B.tau) and rho = max(A.rho, B.rho).
C4_AllOperatorsMinMax ==
    (last.op \in OperatorNames /\ last.err = NoError) =>
        \A r \in DOMAIN sets \cap ResultNames :
            /\ sets[r].tau = RMin(sets[last.x].tau, sets[last.y].tau)
            /\ sets[r].rho = RMax(sets[last.x].rho, sets[last.y].rho)

\* The metrics of A towards B, from the estimates.
BssOf(A, B) ==
    IF JCount(B) = 0 THEN <<Zero, Zero>>
    ELSE <<Ratio(JCount(JIntersect(A, B)), JCount(B)),
           Ratio(JCount(JSetComp(A, B)), JCount(B))>>

\* C4, amended: the sketches union, intersection and difference return have
\* tau = min(A.tau, B.tau) and rho = max(A.rho, B.rho); the sketch
\* complement returns has the tau and rho of the BSS metrics of A towards B.
C4_MinMaxButComplement ==
    /\ (last.op \in OperatorNames \ {"complement"} /\ last.err = NoError) =>
           \A r \in DOMAIN sets \cap ResultNames :
               /\ sets[r].tau = RMin(sets[last.x].tau, sets[last.y].tau)
               /\ sets[r].rho = RMax(sets[last.x].rho, sets[last.y].rho)
    /\ Returned("complement") =>
           <<sets["r1"].tau, sets["r1"].rho>> = BssOf(Obj(last.x), Obj(last.y))

\* difference has returned three sketches for operands whose tau and rho
\* differ, the smaller tau being the second operand's.
C4_Witness ==
    /\ Returned("difference")
    /\ sets[last.x].tau # sets[last.y].tau
    /\ sets[last.x].rho # sets[last.y].rho
    /\ \A r \in ResultNames : Bound(r) /\ sets[r].tau = sets[last.y].tau

\* C5, as claimed: a call that raises InputError, add or add_batch, leaves
\* every register array as it was before the call.
C5_FailedCallChangesNothing ==
    [][(last'.op \in InsertNames /\ last'.err = InputError) => heap' = heap]_vars

\* C5, amended: an add that raises InputError leaves every register array
\* as it was.  An add_batch that raises InputError raised at the first
\* element that cannot be hashed; the elements before it have been
\* inserted, none after it, and no other sketch has changed.
C5_Step ==
    /\ (last'.op = "add" /\ last'.err = InputError) =>
           heap' = heap /\ sets' = sets
    /\ (last'.op = "add_batch" /\ last'.err = InputError) =>
           LET n == last'.x
               es == last'.arg
               k == Len(last'.calls)
           IN  /\ k \in 1..Len(es)
               /\ ~Hashable(es[k])
               /\ \A i \in 1..(k - 1) : Hashable(es[i])
               /\ sets' = sets
               /\ heap'[sets[n].hll].counts =
                      heap[sets[n].hll].counts
                          \cup {Flag(es[i], sets[n].P) : i \in 1..(k - 1)}
               /\ \A id \in DOMAIN heap \ {sets[n].hll} : heap'[id] = heap[id]

C5_FailureKeepsPrefix == [][C5_Step]_vars

\* add_batch raised at its second element, and the flag of its first
\* element is set.
C5_Witness ==
    /\ last.op = "add_batch" /\ last.err = InputError
    /\ Len(last.calls) = 2
    /\ Regs(last.x) = {Flag(last.arg[1], sets[last.x].P)}

\* The engine functions that compute an intersection or a difference.
AlgebraCalls == {"intersect", "diff", "set_comp", "union"}
CallsMade == {last.calls[i] : i \in DOMAIN last.calls}

\* C6, as claimed: A.calculate_bss_to(B) never raises; it returns (0, 0)
\* with no intersection or difference computed when estimate(B) = 0, and
\* otherwise tau = estimate(A /\ B) / estimate(B) and
\* rho = estimate(A \ B) / estimate(B).
C6_BssAlwaysReturns ==
    last.op = "calculate_bss_to" =>
        LET A == Obj(last.x)
            B == Obj(last.y)
        IN  /\ last.err = NoError
            /\ JCount(B) = 0 =>
                   /\ last.out = <<Zero, Zero>>
                   /\ CallsMade \cap AlgebraCalls = {}
            /\ JCount(B) # 0 =>
                   last.out = <<Ratio(JCount(JIntersect(A, B)), JCount(B)),
                                Ratio(JCount(JSetComp(A, B)), JCount(B))>>

\* C6, amended: when estimate(B) = 0 the call returns (0, 0), raises
\* nothing and computes no intersection or difference, whatever the
\* precisions; when estimate(B) # 0 and B has A's precision it returns
\* tau = estimate(A /\ B) / estimate(B), rho = estimate(A \ B) / estimate(B);
\* when estimate(B) # 0 and the precisions differ it raises
\* ConfigMismatchError.
C6_BssMetrics ==
    last.op = "calculate_bss_to" =>
        LET A == Obj(last.x)
            B == Obj(last.y)
        IN  /\ JCount(B) = 0 =>
                   /\ last.err = NoError
                   /\ last.out = <<Zero, Zero>>
                   /\ CallsMade \cap AlgebraCalls = {}
            /\ (JCount(B) # 0 /\ A.P = B.P) =>
                   /\ last.err = NoError
                   /\ last.out = <<Ratio(JCount(JIntersect(A, B)), JCount(B)),
                                   Ratio(JCount(JSetComp(A, B)), JCount(B))>>
            /\ (JCount(B) # 0 /\ A.P # B.P) =>
                   last.err = ConfigMismatchError

\* calculate_bss_to was called on a sketch holding flags and an empty
\* sketch of another precision, and returned (0, 0).
C6_Witness ==
    /\ Returned("calculate_bss_to")
    /\ Regs(last.x) # {} /\ Regs(last.y) = {}
    /\ sets[last.x].P # sets[last.y].P
    /\ last.out = <<Zero, Zero>>

\* C7: two sketches made by the constructor with the same P and seed, into
\* which the same elements were inserted (in whatever order, by add or by
\* add_batch, any number of times each), have the same registers and the
\* same id(); and sketches with the same registers have the same id()
\* whatever their tau, rho, seed and history.
C7_SameElementsSameId ==
    \A x \in DOMAIN sets, y \in DOMAIN sets :
        /\ (/\ seen[x].built /\ seen[y].built
            /\ sets[x].P = sets[y].P /\ sets[x].seed = sets[y].seed
            /\ seen[x].elems = seen[y].elems)
               => /\ Regs(x) = Regs(y)
                  /\ HllSetId(heap, sets[x]) = HllSetId(heap, sets[y])
        /\ (sets[x].P = sets[y].P /\ Regs(x) = Regs(y))
               => HllSetId(heap, sets[x]) = HllSetId(heap, sets[y])
        /\ (Returned("id") /\ last.x = x) => last.out = <<JId(Obj(x))>>

\* id() was called on one of two sketches of the same P and seed but of
\* different tau, into both of which every hashable element was inserted.
C7_Witness ==
    /\ Returned("id")
    /\ Bound("a") /\ Bound("b")
    /\ sets["a"].P = sets["b"].P /\ sets["a"].seed = sets["b"].seed
    /\ sets["a"].tau # sets["b"].tau
    /\ seen["a"].elems = 1..NumElems /\ seen["b"].elems = 1..NumElems

\* The sketch x.union(y) returns, with the heap it lives in.
UnionOf(h, x, y) ==
    LET r == HllSetUnion(h, x, y) IN [heap |-> r.heap, set |-> r.ret[1]]

\* C8: for sketches A, B, C of equal precision that the caller holds when
\* it can call (no call is under way, or an operator has just returned),
\* A.union(B) == B.union(A) and A.union(B).union(C) == A.union(B.union(C)),
\* == being the wrapper's __eq__; and the sketch a union call returned
\* equals the union taken the other way round.
C8_UnionLaws ==
    /\ (last = Idle \/ Fresh) =>
           \A x \in DOMAIN sets, y \in DOMAIN sets :
               sets[x].P = sets[y].P =>
                   LET xy == UnionOf(heap, sets[x], sets[y])
                       yx == UnionOf(xy.heap, sets[y], sets[x])
                   IN  /\ HllSetEq(yx.heap, xy.set, yx.set).out
                       /\ \A z \in DOMAIN sets :
                              sets[z].P = sets[x].P =>
                                  LET xy_z == UnionOf(yx.heap, xy.set, sets[z])
                                      yz == UnionOf(xy_z.heap, sets[y], sets[z])
                                      x_yz == UnionOf(yz.heap, sets[x], yz.set)
                                  IN  HllSetEq(x_yz.heap, xy_z.set, x_yz.set).out
    /\ Returned("union") =>
           HllSetEq(UnionOf(heap, sets[last.y], sets[last.x]).heap,
                    sets["r1"],
                    UnionOf(heap, sets[last.y], sets[last.x]).set).out

\* union has returned for two operands neither of which holds all the
\* flags of the other, and the caller holds a third sketch of that
\* precision which differs from both.
C8_Witness ==
    /\ Returned("union")
    /\ Regs(last.x) \ Regs(last.y) # {}
    /\ Regs(last.y) \ Regs(last.x) # {}
    /\ Regs("r1") # Regs(last.x) /\ Regs("r1") # Regs(last.y)

\* The elements of a list.
Range(es) == {es[i] : i \in DOMAIN es}

\* C9: an add or add_batch that returns sets the flags of the elements not
\* inserted before and nothing else; inserting only elements that were
\* inserted before leaves the registers as they were, and an element
\* inserted several times counts once.
C9_Step ==
    (last'.op \in InsertNames /\ last'.err = NoError) =>
        LET n == last'.x
            fresh == Range(last'.arg) \ seen[n].elems
        IN  /\ heap'[sets[n].hll].counts =
                   heap[sets[n].hll].counts
                       \cup {Flag(e, sets[n].P) : e \in fresh}
            /\ \A e \in seen[n].elems :
                   Flag(e, sets[n].P) \in heap[sets[n].hll].counts

C9_InsertIdempotent == [][C9_Step]_vars

\* add_batch inserted the same element twice, and the sketch holds that
\* element's flag and no other.
C9_Witness ==
    /\ Returned("add_batch")
    /\ Len(last.arg) = 2 /\ last.arg[1] = last.arg[2]
    /\ seen[last.x].elems = {last.arg[1]}
    /\ Regs(last.x) = {Flag(last.arg[1], sets[last.x].P)}

\* C10: x == y on two sketches returns True exactly when the two register
\* arrays are the same, flag for flag, whatever tau, rho, seed and history;
\* it returns False when a flag differs, and it returns for every two
\* sketches of the same P.
C10_EqIsRegisterEquality ==
    (last.op = "eq" /\ last.y # "") =>
        LET A == Obj(last.x)
            B == Obj(last.y)
        IN  /\ A.P = B.P => last.err = NoError
            /\ last.err = NoError =>
                   /\ last.out[1] <=> (A.P = B.P /\ A.counts = B.counts)
                   /\ (\E f \in Flags(A.P) : (f \in A.counts) # (f \in B.counts))
                          => last.out = <<FALSE>>

\* == returned True for two sketches that hold flags and differ in tau,
\* rho and seed.
C10_Witness ==
    /\ Returned("eq") /\ last.y # "" /\ last.x # last.y
    /\ last.out = <<TRUE>>
    /\ Regs(last.x) # {}
    /\ sets[last.x].tau # sets[last.y].tau
    /\ sets[last.x].rho # sets[last.y].rho
    /\ sets[last.x].seed # sets[last.y].seed

=============================================================================
